---- MODULE Spec2Model ----
(***************************************************************************)
(* Model of the playback controller (player.py, class MusicPlayer) and of  *)
(* the Tk front-end that drives it from a UI thread and a polling thread   *)
(* (player_gui.py, class MusicPlayerGUI).                                  *)
(*                                                                         *)
(* The native engine (python-vlc) is external: each native call either     *)
(* returns ("ok") or raises ("raise"); a call on a handle that was already *)
(* released is undefined and may also take the process down ("crash").     *)
(***************************************************************************)
EXTENDS Integers, Sequences, FiniteSets, TLC

\* ---------------------------------------------------------------- bounds
NumTracks == 2
MaxAfter == 1

\* ------------------------------------------------------------- constants
NoFile == 0
Sentinel == 0 - 1

Tracks == 1..NumTracks
\* positions handed to set_position, in tenths (-3 is -0.3, 17 is 1.7)
Positions == {0 - 3, 0, 5, 10, 17}
\* what the engine reports for a bound media, in milliseconds
NativeDurations == {Sentinel, 0, 180000}
NativeTimes == {Sentinel, 2000, 190000}
\* what the engine reports to the poller while the front-end runs
PolledDurations == {0, 180000}
PolledTimes == {2000, 190000}
\* values the slider hands to _on_slider_move (from_=0, to=100)
SliderValues == {0, 50}

VARIABLES
    instance,       \* MusicPlayer.instance: "None" or "Instance"
    player,         \* MusicPlayer.player: "None" or "MediaPlayer"
    current_file,   \* MusicPlayer.current_file: NoFile or a track
    is_playing,     \* MusicPlayer.is_playing
    is_paused,      \* MusicPlayer.is_paused
    ninstance,      \* native engine instance: "none", "live", "released"
    nplayer,        \* native player object: "none", "live", "released"
    nmedia,         \* media bound in the native player (NoFile: none)
    crashed,        \* the process died inside a native call
    last,           \* the last controller call: name, input, result, state before
    seq,            \* progress through load, play, pause, resume, stop, play
    running,            \* MusicPlayerGUI.running
    is_slider_dragging, \* MusicPlayerGUI.is_slider_dragging
    uipc,               \* where the UI thread is
    ui_arg,             \* the running handler's local (track, slider value)
    pollpc,             \* where the polling thread is
    duration,           \* the poller's local "duration"
    current,            \* the poller's local "current"
    afterq,             \* callbacks scheduled with root.after, oldest first
    progress_var,       \* the position indicator, a fraction num/den
    time_label,         \* the elapsed / duration label
    pollq,              \* the native player as the poller's last query met it
    music_exists,       \* the music folder exists and is a directory
    directory,          \* the names of the files in the music folder
    platform,           \* "posix" or "nt": how pathlib compares paths
    tracks,             \* what list_tracks returned
    scanned             \* list_tracks has run

\* the track catalogue: its input and its result
catalog == <<music_exists, directory, platform, tracks, scanned>>

\* the controller (and the catalogue, which no controller call touches)
ctl == <<instance, player, current_file, is_playing, is_paused,
         ninstance, nplayer, nmedia, crashed, last, seq, catalog>>

gui == <<running, is_slider_dragging, uipc, ui_arg, pollpc, duration, current,
         afterq, progress_var, time_label, pollq>>

display == <<progress_var, time_label>>
poller == <<pollpc, duration, current, pollq>>

vars == <<instance, player, current_file, is_playing, is_paused,
          ninstance, nplayer, nmedia, crashed, last, seq,
          running, is_slider_dragging, uipc, ui_arg, pollpc, duration, current,
          afterq, progress_var, time_label, pollq,
          music_exists, directory, platform, tracks, scanned>>

\* ------------------------------------------------ the controller's state
Self == [instance |-> instance, player |-> player,
         current_file |-> current_file,
         is_playing |-> is_playing, is_paused |-> is_paused,
         ninstance |-> ninstance, nplayer |-> nplayer, nmedia |-> nmedia]

MusicPlayer_init ==
    [instance |-> "None", player |-> "None", current_file |-> NoFile,
     is_playing |-> FALSE, is_paused |-> FALSE,
     ninstance |-> "none", nplayer |-> "none", nmedia |-> NoFile]

\* outcomes of a native call on a handle in state h
Outcomes(h) == IF h = "released" THEN {"ok", "raise", "crash"} ELSE {"ok", "raise"}

\* the result of a call: state after, return value, what reached the engine
Res(s, ret, int, calls, engine, fwd) ==
    [s |-> s, ret |-> ret, int |-> int, raised |-> FALSE,
     crashed |-> FALSE, calls |-> calls, engine |-> engine, fwd |-> fwd]

\* "except Exception": the failure e of a native call is caught and the
\* handler's result r is returned; a crash is not an exception
ExceptException(e, r) ==
    IF e = "crash" THEN [r EXCEPT !.crashed = TRUE, !.ret = "-", !.engine = e]
    ELSE [r EXCEPT !.engine = e]


\* initialize whose handler forgets self.instance = None
initialize_keeps_instance(s, e1, e2) ==
    IF e1 # "ok"
    THEN ExceptException(e1,
            Res([s EXCEPT !.player = "None"],
                "False", 0, <<"Instance">>, e1, Sentinel))
    ELSE IF e2 # "ok"
    THEN ExceptException(e2,
            Res([s EXCEPT !.instance = "Instance", !.player = "None",
                          !.ninstance = "live"],
                "False", 0, <<"Instance", "media_player_new">>, e2, Sentinel))
    ELSE Res([s EXCEPT !.instance = "Instance", !.player = "MediaPlayer",
                       !.ninstance = "live", !.nplayer = "live"],
             "True", 0, <<"Instance", "media_player_new">>, "ok", Sentinel)

initialize(s, e1, e2) ==
    IF e1 # "ok"
    THEN ExceptException(e1,
            Res([s EXCEPT !.instance = "None", !.player = "None"],
                "False", 0, <<"Instance">>, e1, Sentinel))
    ELSE IF e2 # "ok"
    THEN ExceptException(e2,
            Res([s EXCEPT !.instance = "None", !.player = "None",
                          !.ninstance = "live"],
                "False", 0, <<"Instance", "media_player_new">>, e2, Sentinel))
    ELSE Res([s EXCEPT !.instance = "Instance", !.player = "MediaPlayer",
                       !.ninstance = "live", !.nplayer = "live"],
             "True", 0, <<"Instance", "media_player_new">>, "ok", Sentinel)


\* load_track that assigns current_file before set_media has succeeded
load_track_binds_early(s, file_path, e1, e2) ==
    IF s.instance = "None" \/ s.player = "None"
    THEN Res(s, "False", 0, <<>>, "none", Sentinel)
    ELSE IF e1 # "ok"
    THEN ExceptException(e1, Res(s, "False", 0, <<"media_new">>, e1, Sentinel))
    ELSE IF e2 # "ok"
    THEN ExceptException(e2,
            Res([s EXCEPT !.current_file = file_path], "False", 0,
                <<"media_new", "set_media">>, e2, Sentinel))
    ELSE Res([s EXCEPT !.nmedia = file_path, !.current_file = file_path],
             "True", 0, <<"media_new", "set_media">>, "ok", Sentinel)

load_track(s, file_path, e1, e2) ==
    IF s.instance = "None" \/ s.player = "None"
    THEN Res(s, "False", 0, <<>>, "none", Sentinel)
    ELSE IF e1 # "ok"
    THEN ExceptException(e1, Res(s, "False", 0, <<"media_new">>, e1, Sentinel))
    ELSE IF e2 # "ok"
    THEN ExceptException(e2,
            Res(s, "False", 0, <<"media_new", "set_media">>, e2, Sentinel))
    ELSE Res([s EXCEPT !.nmedia = file_path, !.current_file = file_path],
             "True", 0, <<"media_new", "set_media">>, "ok", Sentinel)


\* play that sets is_playing before the native call
play_sets_flag_first(s, e) ==
    IF s.player = "None"
    THEN Res(s, "False", 0, <<>>, "none", Sentinel)
    ELSE IF e # "ok"
    THEN ExceptException(e,
            Res([s EXCEPT !.is_playing = TRUE], "False", 0, <<"play">>, e, Sentinel))
    ELSE Res([s EXCEPT !.is_playing = TRUE, !.is_paused = FALSE],
             "True", 0, <<"play">>, "ok", Sentinel)

play(s, e) ==
    IF s.player = "None"
    THEN Res(s, "False", 0, <<>>, "none", Sentinel)
    ELSE IF e # "ok"
    THEN ExceptException(e, Res(s, "False", 0, <<"play">>, e, Sentinel))
    ELSE Res([s EXCEPT !.is_playing = TRUE, !.is_paused = FALSE],
             "True", 0, <<"play">>, "ok", Sentinel)

pause(s, e) ==
    IF s.player = "None"
    THEN Res(s, "False", 0, <<>>, "none", Sentinel)
    ELSE IF e # "ok"
    THEN ExceptException(e, Res(s, "False", 0, <<"pause">>, e, Sentinel))
    ELSE Res([s EXCEPT !.is_paused = TRUE], "True", 0, <<"pause">>, "ok", Sentinel)

resume(s, e) ==
    IF s.player = "None"
    THEN Res(s, "False", 0, <<>>, "none", Sentinel)
    ELSE IF e # "ok"
    THEN ExceptException(e, Res(s, "False", 0, <<"play">>, e, Sentinel))
    ELSE Res([s EXCEPT !.is_paused = FALSE], "True", 0, <<"play">>, "ok", Sentinel)


\* stop that forgets self.is_paused = False
stop_keeps_paused(s, e) ==
    IF s.player = "None"
    THEN Res(s, "False", 0, <<>>, "none", Sentinel)
    ELSE IF e # "ok"
    THEN ExceptException(e, Res(s, "False", 0, <<"stop">>, e, Sentinel))
    ELSE Res([s EXCEPT !.is_playing = FALSE], "True", 0, <<"stop">>, "ok", Sentinel)

stop(s, e) ==
    IF s.player = "None"
    THEN Res(s, "False", 0, <<>>, "none", Sentinel)
    ELSE IF e # "ok"
    THEN ExceptException(e, Res(s, "False", 0, <<"stop">>, e, Sentinel))
    ELSE Res([s EXCEPT !.is_playing = FALSE, !.is_paused = FALSE],
             "True", 0, <<"stop">>, "ok", Sentinel)

\* media = self.player.get_media(); if media: return media.get_duration()

\* get_duration without the "if media" test
get_duration_no_media_test(s, e1, e2, d) ==
    IF s.player = "None"
    THEN Res(s, "Int", Sentinel, <<>>, "none", Sentinel)
    ELSE IF e1 # "ok"
    THEN ExceptException(e1, Res(s, "Int", Sentinel, <<"get_media">>, e1, Sentinel))
    ELSE IF e2 # "ok"
    THEN ExceptException(e2,
            Res(s, "Int", Sentinel, <<"get_media", "get_duration">>, e2, Sentinel))
    ELSE Res(s, "Int", d, <<"get_media", "get_duration">>, "ok", Sentinel)

get_duration(s, e1, e2, d) ==
    IF s.player = "None"
    THEN Res(s, "Int", Sentinel, <<>>, "none", Sentinel)
    ELSE IF e1 # "ok"
    THEN ExceptException(e1, Res(s, "Int", Sentinel, <<"get_media">>, e1, Sentinel))
    ELSE IF s.nmedia = NoFile
    THEN Res(s, "Int", Sentinel, <<"get_media">>, "ok", Sentinel)
    ELSE IF e2 # "ok"
    THEN ExceptException(e2,
            Res(s, "Int", Sentinel, <<"get_media", "get_duration">>, e2, Sentinel))
    ELSE Res(s, "Int", d, <<"get_media", "get_duration">>, "ok", Sentinel)

get_current_time(s, e, t) ==
    IF s.player = "None"
    THEN Res(s, "Int", Sentinel, <<>>, "none", Sentinel)
    ELSE IF e # "ok"
    THEN ExceptException(e, Res(s, "Int", Sentinel, <<"get_time">>, e, Sentinel))
    ELSE Res(s, "Int", t, <<"get_time">>, "ok", Sentinel)

\* max(0.0, min(1.0, float(position))), in tenths

\* the clamp without its lower bound: min(1.0, float(position))
Clamp_no_lower(position) == IF position < 10 THEN position ELSE 10

Clamp(position) ==
    LET m == IF position < 10 THEN position ELSE 10
    IN  IF m > 0 THEN m ELSE 0

set_position(s, position, e) ==
    IF s.player = "None"
    THEN Res(s, "False", 0, <<>>, "none", Sentinel)
    ELSE IF e # "ok"
    THEN ExceptException(e,
            Res(s, "False", 0, <<"set_position">>, e, Clamp(position)))
    ELSE Res(s, "True", 0, <<"set_position">>, "ok", Clamp(position))

cleanup(s, e1, e2, e3) ==
    LET afterPlayer ==
            IF s.player = "None" THEN Res(s, "None", 0, <<>>, "none", Sentinel)
            ELSE IF e1 # "ok"
            THEN ExceptException(e1, Res(s, "None", 0, <<"stop">>, e1, Sentinel))
            ELSE IF e2 # "ok"
            THEN ExceptException(e2,
                    Res(s, "None", 0, <<"stop", "release">>, e2, Sentinel))
            ELSE Res([s EXCEPT !.nplayer = "released"], "None", 0,
                     <<"stop", "release">>, "ok", Sentinel)
    IN  IF afterPlayer.engine \in {"raise", "crash"} \/ s.instance = "None"
        THEN afterPlayer
        ELSE IF e3 # "ok"
        THEN ExceptException(e3,
                [afterPlayer EXCEPT !.calls = Append(@, "instance.release")])
        ELSE [afterPlayer EXCEPT !.s.ninstance = "released",
                                 !.calls = Append(@, "instance.release"),
                                 !.engine = "ok"]

\* ---------------------------------------------------------- call record
NoCall == [op |-> "none", arg |-> 0, ret |-> "-", int |-> 0, raised |-> FALSE,
           engine |-> "none", calls |-> <<>>, fwd |-> Sentinel,
           pre |-> MusicPlayer_init]

\* the accepted prefix of load_track, play, pause, resume, stop, play
Expected == <<"load_track", "play", "pause", "resume", "stop", "play">>

\* seq.n calls of Expected were made in a row, each accepted by the engine,
\* starting with load_track(seq.track)
NoSeq == [n |-> 0, track |-> NoFile]

NextSeq(op, arg, r) ==
    IF r.engine # "ok" THEN NoSeq
    ELSE IF seq.n >= 1 /\ seq.n < Len(Expected) /\ Expected[seq.n + 1] = op
    THEN [seq EXCEPT !.n = @ + 1]
    ELSE IF op = "load_track" THEN [n |-> 1, track |-> arg]
    ELSE NoSeq

\* the controller call op(arg) with result r takes effect
Call(op, arg, r) ==
    /\ instance' = r.s.instance
    /\ player' = r.s.player
    /\ current_file' = r.s.current_file
    /\ is_playing' = r.s.is_playing
    /\ is_paused' = r.s.is_paused
    /\ ninstance' = r.s.ninstance
    /\ nplayer' = r.s.nplayer
    /\ nmedia' = r.s.nmedia
    /\ crashed' = r.crashed
    /\ last' = [op |-> op, arg |-> arg, ret |-> r.ret, int |-> r.int,
                raised |-> r.raised, engine |-> r.engine, calls |-> r.calls,
                fwd |-> r.fwd, pre |-> Self]
    /\ seq' = NextSeq(op, arg, r)
    /\ UNCHANGED catalog

\* ------------------------------------------------------ the GUI's display
Fraction(n, d) == [num |-> n, den |-> d]

\* "--:--" is <<-1, -1>>; "MM:SS" is <<MM, SS>>
_format_time(milliseconds) ==
    IF milliseconds < 0 THEN <<Sentinel, Sentinel>>
    ELSE LET seconds == milliseconds \div 1000
         IN  <<seconds \div 60, seconds % 60>>

ZeroLabel == [cur |-> <<0, 0>>, dur |-> <<0, 0>>]
UnknownLabel == [cur |-> <<Sentinel, Sentinel>>, dur |-> <<Sentinel, Sentinel>>]


\* the front-end before any of its threads has run
GuiIdle ==
    /\ running = TRUE
    /\ is_slider_dragging = FALSE
    /\ uipc = "mainloop"
    /\ ui_arg = 0
    /\ pollpc = "while"
    /\ duration = 0
    /\ current = 0
    /\ afterq = <<>>
    /\ progress_var = Fraction(0, 1)
    /\ time_label = ZeroLabel
    /\ pollq = "none"

\* ------------------------------------------------------ the track catalog
\* file names are sequences of character codes
a_mp3 == <<97, 46, 109, 112, 51>>
B_WAV == <<66, 46, 87, 65, 86>>
notes_txt == <<110, 111, 116, 101, 115, 46, 116, 120, 116>>
c_OGG == <<99, 46, 79, 71, 71>>
Z_mp4 == <<90, 46, 109, 112, 52>>
readme == <<114, 101, 97, 100, 109, 101>>

Files == {a_mp3, B_WAV, notes_txt, c_OGG, Z_mp4, readme}

\* {'.mp3', '.wav', '.ogg'}
VALID_EXTENSIONS ==
    {<<46, 109, 112, 51>>, <<46, 119, 97, 118>>, <<46, 111, 103, 103>>}

\* str.lower() on ASCII
LowerChar(c) == IF c >= 65 /\ c <= 90 THEN c + 32 ELSE c
Lower(str) == [i \in 1..Len(str) |-> LowerChar(str[i])]

\* Path.suffix: the name from its last dot on, unless that dot leads or ends it
Suffix(name) ==
    LET dots == {i \in 1..Len(name) : name[i] = 46}
    IN  IF dots = {} THEN <<>>
        ELSE LET i == CHOOSE k \in dots : \A j \in dots : j <= k
             IN  IF i > 1 /\ i < Len(name) THEN SubSeq(name, i, Len(name)) ELSE <<>>

\* a < b for strings, by character code
RECURSIVE StrLess(_, _)
StrLess(a, b) ==
    IF b = <<>> THEN FALSE
    ELSE IF a = <<>> THEN TRUE
    ELSE IF Head(a) # Head(b) THEN Head(a) < Head(b)
    ELSE StrLess(Tail(a), Tail(b))

\* Path.__lt__ for two entries of one folder: by name on POSIX, by the
\* case-folded name on Windows
PathLess(a, b, os) ==
    IF os = "nt" THEN StrLess(Lower(a), Lower(b)) ELSE StrLess(a, b)

\* sorted(paths)
RECURSIVE Sorted(_, _)
Sorted(paths, os) ==
    IF paths = {} THEN <<>>
    ELSE LET m == CHOOSE x \in paths : \A y \in paths \ {x} : ~PathLess(y, x, os)
         IN  <<m>> \o Sorted(paths \ {m}, os)

\* list_tracks that compares the suffix as it is spelt
list_tracks_case_sensitive(exists, folder, os) ==
    IF ~exists THEN <<>>
    ELSE Sorted({f \in folder : Suffix(f) \in VALID_EXTENSIONS}, os)

list_tracks(exists, folder, os) ==
    IF ~exists THEN <<>>
    ELSE Sorted({f \in folder : Lower(Suffix(f)) \in VALID_EXTENSIONS}, os)

\* no scan is in play: an empty folder that list_tracks never read
CatalogIdle ==
    /\ music_exists = TRUE
    /\ directory = {}
    /\ platform = "posix"
    /\ tracks = <<>>
    /\ scanned = FALSE

\* any folder of the candidate files, on either platform, or no folder
CatalogInit ==
    /\ instance = "None"
    /\ player = "None"
    /\ current_file = NoFile
    /\ is_playing = FALSE
    /\ is_paused = FALSE
    /\ ninstance = "none"
    /\ nplayer = "none"
    /\ nmedia = NoFile
    /\ crashed = FALSE
    /\ last = NoCall
    /\ seq = NoSeq
    /\ GuiIdle
    /\ music_exists \in BOOLEAN
    /\ directory \in (IF music_exists THEN SUBSET Files ELSE {{}})
    /\ platform \in {"posix", "nt"}
    /\ tracks = <<>>
    /\ scanned = FALSE

ListTracks ==
    /\ ~scanned
    /\ tracks' = list_tracks(music_exists, directory, platform)
    /\ scanned' = TRUE
    /\ UNCHANGED <<instance, player, current_file, is_playing, is_paused,
                   ninstance, nplayer, nmedia, crashed, last, seq, gui,
                   music_exists, directory, platform>>

CatalogNext == ListTracks

CatalogSpec == CatalogInit /\ [][CatalogNext]_vars

\* --------------------------------------- the controller under any caller
Init ==
    /\ instance = "None"
    /\ player = "None"
    /\ current_file = NoFile
    /\ is_playing = FALSE
    /\ is_paused = FALSE
    /\ ninstance = "none"
    /\ nplayer = "none"
    /\ nmedia = NoFile
    /\ crashed = FALSE
    /\ last = NoCall
    /\ seq = NoSeq
    /\ GuiIdle
    /\ CatalogIdle

\* initialize() is the step Uninitialized -> Ready: it is called on a
\* controller that holds no engine (at start, or again after it failed)
Initialize ==
    /\ ~crashed
    /\ UNCHANGED gui
    /\ instance = "None" /\ player = "None"
    /\ \E e1 \in {"ok", "raise"}, e2 \in {"ok", "raise"} :
          Call("initialize", 0, initialize(Self, e1, e2))

LoadTrack ==
    /\ ~crashed
    /\ UNCHANGED gui
    /\ \E f \in Tracks, e1 \in Outcomes(ninstance), e2 \in Outcomes(nplayer) :
          Call("load_track", f, load_track(Self, f, e1, e2))

Play ==
    /\ ~crashed
    /\ UNCHANGED gui
    /\ \E e \in Outcomes(nplayer) : Call("play", 0, play(Self, e))

Pause ==
    /\ ~crashed
    /\ UNCHANGED gui
    /\ \E e \in Outcomes(nplayer) : Call("pause", 0, pause(Self, e))

Resume ==
    /\ ~crashed
    /\ UNCHANGED gui
    /\ \E e \in Outcomes(nplayer) : Call("resume", 0, resume(Self, e))

Stop ==
    /\ ~crashed
    /\ UNCHANGED gui
    /\ \E e \in Outcomes(nplayer) : Call("stop", 0, stop(Self, e))

GetDuration ==
    /\ ~crashed
    /\ UNCHANGED gui
    /\ \E e1 \in Outcomes(nplayer), e2 \in Outcomes(nplayer), d \in NativeDurations :
          Call("get_duration", 0, get_duration(Self, e1, e2, d))

GetCurrentTime ==
    /\ ~crashed
    /\ UNCHANGED gui
    /\ \E e \in Outcomes(nplayer),
          t \in (IF nmedia = NoFile THEN {Sentinel} ELSE NativeTimes) :
          Call("get_current_time", 0, get_current_time(Self, e, t))

SetPosition ==
    /\ ~crashed
    /\ UNCHANGED gui
    /\ \E p \in Positions, e \in Outcomes(nplayer) :
          Call("set_position", p, set_position(Self, p, e))

Cleanup ==
    /\ ~crashed
    /\ UNCHANGED gui
    /\ \E e1 \in Outcomes(nplayer), e2 \in Outcomes(nplayer),
          e3 \in Outcomes(ninstance) :
          Call("cleanup", 0, cleanup(Self, e1, e2, e3))

Next ==
    \/ Initialize
    \/ LoadTrack
    \/ Play
    \/ Pause
    \/ Resume
    \/ Stop
    \/ GetDuration
    \/ GetCurrentTime
    \/ SetPosition
    \/ Cleanup

Spec == Init /\ [][Next]_vars

\* ------------------------------------------- the front-end and its poller
GuiInit ==
    /\ instance = "Instance"
    /\ player = "MediaPlayer"
    /\ current_file = NoFile
    /\ is_playing = FALSE
    /\ is_paused = FALSE
    /\ ninstance = "live"
    /\ nplayer = "live"
    /\ nmedia = NoFile
    /\ crashed = FALSE
    /\ last = NoCall
    /\ seq = NoSeq
    /\ GuiIdle
    /\ CatalogIdle

UiAt(pc) == ~crashed /\ uipc = pc

\* a controller call made by a handler of the front-end
GuiCall(r) ==
    /\ instance' = r.s.instance
    /\ player' = r.s.player
    /\ current_file' = r.s.current_file
    /\ is_playing' = r.s.is_playing
    /\ is_paused' = r.s.is_paused
    /\ ninstance' = r.s.ninstance
    /\ nplayer' = r.s.nplayer
    /\ nmedia' = r.s.nmedia
    /\ crashed' = r.crashed
    /\ UNCHANGED <<last, seq, catalog>>

\* on_play up to the load: no selection, a failed load, or on to play()
on_play_load ==
    /\ UiAt("mainloop")
    /\ \E sel \in Tracks \cup {NoFile} :
          IF sel = NoFile
          THEN /\ uipc' = "messagebox"
               /\ UNCHANGED <<ctl, ui_arg>>
          ELSE \E e1 \in Outcomes(ninstance), e2 \in Outcomes(nplayer) :
                  LET r == load_track(Self, sel, e1, e2)
                  IN  /\ GuiCall(r)
                      /\ IF r.ret = "True"
                         THEN uipc' = "on_play_play" /\ ui_arg' = sel
                         ELSE uipc' = "messagebox" /\ UNCHANGED ui_arg
    /\ UNCHANGED <<running, is_slider_dragging, afterq, display, poller>>

on_play_play ==
    /\ UiAt("on_play_play")
    /\ \E e \in Outcomes(nplayer) :
          LET r == play(Self, e)
          IN  /\ GuiCall(r)
              /\ IF r.ret = "True"
                 THEN /\ progress_var' = Fraction(0, 1)
                      /\ time_label' = ZeroLabel
                      /\ uipc' = "mainloop"
                 ELSE /\ uipc' = "messagebox"
                      /\ UNCHANGED display
    /\ ui_arg' = 0
    /\ UNCHANGED <<running, is_slider_dragging, afterq, poller>>

on_pause ==
    /\ UiAt("mainloop")
    /\ \E e \in Outcomes(nplayer) :
          LET r == pause(Self, e)
          IN  /\ GuiCall(r)
              /\ uipc' = IF r.ret = "True" THEN "mainloop" ELSE "messagebox"
    /\ UNCHANGED <<running, is_slider_dragging, ui_arg, afterq, display, poller>>

\* self.player.current_file.name raises AttributeError when current_file is
\* None; Tk reports the exception and the event loop goes on
on_resume ==
    /\ UiAt("mainloop")
    /\ \E e \in Outcomes(nplayer) :
          LET r == resume(Self, e)
          IN  /\ GuiCall(r)
              /\ uipc' = IF r.ret # "True" THEN "messagebox"
                         ELSE IF r.s.current_file = NoFile THEN "callback_exception"
                         ELSE "mainloop"
    /\ UNCHANGED <<running, is_slider_dragging, ui_arg, afterq, display, poller>>

on_stop ==
    /\ UiAt("mainloop")
    /\ \E e \in Outcomes(nplayer) :
          LET r == stop(Self, e)
          IN  /\ GuiCall(r)
              /\ IF r.ret = "True"
                 THEN /\ progress_var' = Fraction(0, 1)
                      /\ time_label' = ZeroLabel
                      /\ uipc' = "mainloop"
                 ELSE /\ uipc' = "messagebox"
                      /\ UNCHANGED display
    /\ UNCHANGED <<running, is_slider_dragging, ui_arg, afterq, poller>>

\* the message box is dismissed, or Tk has reported the handler's exception
handler_return ==
    /\ ~crashed
    /\ uipc \in {"messagebox", "callback_exception"}
    /\ uipc' = "mainloop"
    /\ UNCHANGED <<ctl, running, is_slider_dragging, ui_arg, afterq, display,
                   poller>>

\* _on_slider_move: the guard and is_slider_dragging = True
_on_slider_move_enter ==
    /\ UiAt("mainloop")
    /\ ~is_slider_dragging
    /\ \E value \in SliderValues : ui_arg' = value
    /\ is_slider_dragging' = TRUE
    /\ uipc' = "slider_seek"
    /\ UNCHANGED <<ctl, running, afterq, display, poller>>

\* position = float(value) / 100.0; self.player.set_position(position)
_on_slider_move_seek ==
    /\ UiAt("slider_seek")
    /\ \E e \in Outcomes(nplayer) : GuiCall(set_position(Self, ui_arg \div 10, e))
    /\ uipc' = "slider_finally"
    /\ ui_arg' = 0
    /\ UNCHANGED <<running, is_slider_dragging, afterq, display, poller>>

\* finally: self.is_slider_dragging = False
_on_slider_move_finally ==
    /\ UiAt("slider_finally")
    /\ is_slider_dragging' = FALSE
    /\ uipc' = "mainloop"
    /\ UNCHANGED <<ctl, running, ui_arg, afterq, display, poller>>


\* the percentage without its upper clamp: max(0.0, (current_ms / duration_ms) * 100)
Progress_no_upper_clamp(current_ms, duration_ms) ==
    IF current_ms <= 0 THEN Fraction(0, 1)
    ELSE Fraction(current_ms * 100, duration_ms)

\* max(0.0, min(100.0, (current_ms / duration_ms) * 100)) for duration_ms > 0
Progress(current_ms, duration_ms) ==
    IF current_ms >= duration_ms THEN Fraction(100, 1)
    ELSE IF current_ms <= 0 THEN Fraction(0, 1)
    ELSE Fraction(current_ms * 100, duration_ms)

\* what _apply_progress(current_ms, duration_ms) puts on the display
Applied(current_ms, duration_ms) ==
    IF duration_ms # 0 /\ duration_ms > 0
    THEN [progress_var |-> Progress(current_ms, duration_ms),
          time_label |-> [cur |-> _format_time(current_ms),
                          dur |-> _format_time(duration_ms)]]
    ELSE [progress_var |-> Fraction(0, 1), time_label |-> UnknownLabel]

\* the event loop (also the one a message box runs) takes the oldest callback
\* scheduled with root.after
_apply_progress ==
    /\ ~crashed
    /\ uipc \in {"mainloop", "messagebox"}
    /\ afterq # <<>>
    /\ LET a == Applied(Head(afterq).current, Head(afterq).duration)
       IN  /\ progress_var' = a.progress_var
           /\ time_label' = a.time_label
    /\ afterq' = Tail(afterq)
    /\ UNCHANGED <<ctl, running, is_slider_dragging, uipc, ui_arg, poller>>

\* _on_closing: self.running = False
_on_closing_running ==
    /\ UiAt("mainloop")
    /\ running' = FALSE
    /\ uipc' = "closing_stop"
    /\ UNCHANGED <<ctl, is_slider_dragging, ui_arg, afterq, display, poller>>

\* _on_closing: self.player.stop()
_on_closing_stop ==
    /\ UiAt("closing_stop")
    /\ \E e \in Outcomes(nplayer) : GuiCall(stop(Self, e))
    /\ uipc' = "closing_cleanup"
    /\ UNCHANGED <<running, is_slider_dragging, ui_arg, afterq, display, poller>>

\* _on_closing: self.player.cleanup()
_on_closing_cleanup ==
    /\ UiAt("closing_cleanup")
    /\ \E e1 \in Outcomes(nplayer), e2 \in Outcomes(nplayer),
          e3 \in Outcomes(ninstance) : GuiCall(cleanup(Self, e1, e2, e3))
    /\ uipc' = "closing_destroy"
    /\ UNCHANGED <<running, is_slider_dragging, ui_arg, afterq, display, poller>>

\* _on_closing: self.root.destroy(); pending callbacks are dropped
_on_closing_destroy ==
    /\ UiAt("closing_destroy")
    /\ uipc' = "destroyed"
    /\ afterq' = <<>>
    /\ UNCHANGED <<ctl, running, is_slider_dragging, ui_arg, display, poller>>

\* root.mainloop() returns and the process ends, taking the daemon thread along
mainloop_exit ==
    /\ UiAt("destroyed")
    /\ uipc' = "exited"
    /\ pollpc' = "killed"
    /\ UNCHANGED <<ctl, running, is_slider_dragging, ui_arg, afterq, display,
                   duration, current, pollq>>

PollAt(pc) == ~crashed /\ pollpc = pc

\* a query of the poller: the controller's fields stay, the process may die;
\* pollq keeps the state of the native player a native call of the query met
PollCall(r) ==
    /\ crashed' = r.crashed
    /\ pollq' = IF r.calls = <<>> THEN "none" ELSE nplayer
    /\ UNCHANGED <<instance, player, current_file, is_playing, is_paused,
                   ninstance, nplayer, nmedia, last, seq, catalog>>


\* the loop test that never looks at self.running: "while True:"
poll_while_ignores_running ==
    /\ PollAt("while")
    /\ pollpc' = "if_playing"
    /\ UNCHANGED <<ctl, running, is_slider_dragging, uipc, ui_arg, afterq,
                   display, duration, current, pollq>>

\* while self.running:
poll_while ==
    /\ PollAt("while")
    /\ pollpc' = IF running THEN "if_playing" ELSE "done"
    /\ UNCHANGED <<ctl, running, is_slider_dragging, uipc, ui_arg, afterq,
                   display, duration, current, pollq>>

\* if self.player.is_playing ...
poll_if_playing ==
    /\ PollAt("if_playing")
    /\ pollpc' = IF is_playing THEN "if_dragging" ELSE "sleep"
    /\ UNCHANGED <<ctl, running, is_slider_dragging, uipc, ui_arg, afterq,
                   display, duration, current, pollq>>


\* the test without "and not self.is_slider_dragging"
poll_if_dragging_ignored ==
    /\ PollAt("if_dragging")
    /\ pollpc' = "get_duration"
    /\ UNCHANGED <<ctl, running, is_slider_dragging, uipc, ui_arg, afterq,
                   display, duration, current, pollq>>

\* ... and not self.is_slider_dragging:
poll_if_dragging ==
    /\ PollAt("if_dragging")
    /\ pollpc' = IF ~is_slider_dragging THEN "get_duration" ELSE "sleep"
    /\ UNCHANGED <<ctl, running, is_slider_dragging, uipc, ui_arg, afterq,
                   display, duration, current, pollq>>

\* duration = self.player.get_duration()
poll_get_duration ==
    /\ PollAt("get_duration")
    /\ \E e1 \in Outcomes(nplayer), e2 \in Outcomes(nplayer), d \in PolledDurations :
          LET r == get_duration(Self, e1, e2, d)
          IN  /\ PollCall(r)
              /\ duration' = r.int
    /\ pollpc' = "get_current_time"
    /\ UNCHANGED <<running, is_slider_dragging, uipc, ui_arg, afterq, display,
                   current>>

\* current = self.player.get_current_time()
poll_get_current_time ==
    /\ PollAt("get_current_time")
    /\ \E e \in Outcomes(nplayer),
          t \in (IF nmedia = NoFile THEN {Sentinel} ELSE PolledTimes) :
          LET r == get_current_time(Self, e, t)
          IN  /\ PollCall(r)
              /\ current' = r.int
    /\ pollpc' = "after"
    /\ UNCHANGED <<running, is_slider_dragging, uipc, ui_arg, afterq, display,
                   duration>>

\* self.root.after(0, self._apply_progress, current, duration); once the root
\* is destroyed the call raises and "except Exception: pass" drops it
poll_after ==
    /\ PollAt("after")
    /\ IF uipc \in {"destroyed", "exited"}
       THEN UNCHANGED afterq
       ELSE /\ Len(afterq) < MaxAfter
            /\ afterq' = Append(afterq, [current |-> current, duration |-> duration])
    /\ pollpc' = "sleep"
    /\ duration' = 0
    /\ current' = 0
    /\ UNCHANGED <<ctl, running, is_slider_dragging, uipc, ui_arg, display, pollq>>

\* time.sleep(0.1)
poll_sleep ==
    /\ PollAt("sleep")
    /\ pollpc' = "while"
    /\ UNCHANGED <<ctl, running, is_slider_dragging, uipc, ui_arg, afterq,
                   display, duration, current, pollq>>

GuiNext ==
    \/ on_play_load
    \/ on_play_play
    \/ on_pause
    \/ on_resume
    \/ on_stop
    \/ handler_return
    \/ _on_slider_move_enter
    \/ _on_slider_move_seek
    \/ _on_slider_move_finally
    \/ _apply_progress
    \/ _on_closing_running
    \/ _on_closing_stop
    \/ _on_closing_cleanup
    \/ _on_closing_destroy
    \/ mainloop_exit
    \/ poll_while
    \/ poll_if_playing
    \/ poll_if_dragging
    \/ poll_get_duration
    \/ poll_get_current_time
    \/ poll_after
    \/ poll_sleep

GuiSpec == GuiInit /\ [][GuiNext]_vars

\* the polling thread keeps running while the process lives, and the UI
\* thread runs _on_closing to its end once it has entered it; nothing makes
\* the user act or the process exit
PollerNext ==
    \/ poll_while
    \/ poll_if_playing
    \/ poll_if_dragging
    \/ poll_get_duration
    \/ poll_get_current_time
    \/ poll_after
    \/ poll_sleep

ClosingNext ==
    \/ _on_closing_stop
    \/ _on_closing_cleanup
    \/ _on_closing_destroy

GuiFairSpec == GuiSpec /\ WF_vars(PollerNext) /\ WF_vars(ClosingNext)

\* ================================================================ claims
BoolOps == {"load_track", "play", "pause", "resume", "stop", "set_position"}

FlagsKept ==
    /\ is_playing = last.pre.is_playing
    /\ is_paused = last.pre.is_paused
    /\ current_file = last.pre.current_file

\* C1 (as stated): in every reachable state of the controller, is_paused
\* implies is_playing.
C1_PausedImpliesPlaying == is_paused => is_playing

\* C2 (as stated): play() called while no track is loaded returns False and
\* leaves is_playing, is_paused and current_file unchanged.
C2_PlayWithoutTrackFails ==
    (last.op = "play" /\ last.pre.current_file = NoFile /\ ~crashed)
        => (last.ret = "False" /\ FlagsKept)

\* C3: a failed initialize() leaves instance and player None, and on a
\* controller whose instance and player are None every load_track, play,
\* pause, resume, stop and set_position returns False, changes no flag and
\* no binding and reaches no native call, and both queries return -1.
C3_FailedInitialize ==
    /\ (last.op = "initialize" /\ last.ret = "False")
          => (instance = "None" /\ player = "None")
    /\ (last.op \in BoolOps /\ last.pre.instance = "None" /\ last.pre.player = "None")
          => (last.ret = "False" /\ ~last.raised /\ FlagsKept /\ last.calls = <<>>)
    /\ (last.op \in {"get_duration", "get_current_time"}
            /\ last.pre.instance = "None" /\ last.pre.player = "None")
          => (last.ret = "Int" /\ last.int = Sentinel /\ ~last.raised
                /\ FlagsKept /\ last.calls = <<>>)

\* initialize() failed in media_player_new (the native instance exists, the
\* controller holds none) and a play() was then turned away
C3_Witness ==
    /\ last.op = "play"
    /\ last.pre.instance = "None"
    /\ last.pre.ninstance = "live"
    /\ last.ret = "False"

\* C4 (as stated): right after a successful load_track, is_playing and
\* is_paused are both False and current_file is the track just loaded.
C4_LoadResetsFlags ==
    (last.op = "load_track" /\ last.ret = "True")
        => (~is_playing /\ ~is_paused /\ current_file = last.arg)

\* C5 (as stated): after a load_track that the engine rejected, current_file
\* is None.
C5_FailedLoadUnbinds ==
    (last.op = "load_track" /\ last.engine = "raise") => current_file = NoFile

\* C5 (amended): a load_track that the engine rejected returns False and
\* leaves the binding as it was: current_file and the engine's media are
\* what they were before the call (None only if nothing was loaded before).
C5_FailedLoadKeepsBinding ==
    (last.op = "load_track" /\ last.engine = "raise")
        => (last.ret = "False" /\ current_file = last.pre.current_file
              /\ nmedia = last.pre.nmedia)

\* the engine rejected, at set_media, a track other than the one bound
C5_Witness ==
    /\ last.op = "load_track"
    /\ last.engine = "raise"
    /\ last.calls = <<"media_new", "set_media">>
    /\ last.pre.current_file # NoFile
    /\ last.arg # last.pre.current_file
    /\ current_file = last.pre.current_file

\* C6 (as stated): pause() on a controller that is not playing returns False
\* and changes no flag.
C6_PauseFailsWhenNotPlaying ==
    (last.op = "pause" /\ ~last.pre.is_playing /\ ~crashed)
        => (last.ret = "False" /\ is_playing = last.pre.is_playing
              /\ is_paused = last.pre.is_paused)

\* C7 (as stated): resume() on a controller that is not paused returns False
\* and changes no flag; after a resume() that returned True the controller
\* is playing and not paused.
C7_ResumeOnlyFromPaused ==
    /\ (last.op = "resume" /\ ~last.pre.is_paused /\ ~crashed)
          => (last.ret = "False" /\ is_playing = last.pre.is_playing
                /\ is_paused = last.pre.is_paused)
    /\ (last.op = "resume" /\ last.ret = "True")
          => (is_playing /\ ~is_paused)

\* C8: a stop() that returned True leaves both flags False and current_file
\* as it was; after load_track, play, pause, resume, stop, all accepted by
\* the engine, both flags are False and the loaded track is still bound, and
\* a play() that the engine accepts next returns True.
C8_StopKeepsBinding ==
    /\ (last.op = "stop" /\ last.ret = "True")
          => (~is_playing /\ ~is_paused /\ current_file = last.pre.current_file)
    /\ seq.n = 5
          => (~is_playing /\ ~is_paused /\ current_file = seq.track
                /\ seq.track \in Tracks)
    /\ seq.n = 6
          => (last.op = "play" /\ last.ret = "True" /\ is_playing
                /\ current_file = seq.track)

\* the whole sequence ran, and the play() after it succeeded
C8_Witness ==
    /\ seq.n = 6
    /\ last.ret = "True"
    /\ ~last.pre.is_playing
    /\ ~last.pre.is_paused
    /\ last.pre.current_file = seq.track

\* C9: when the native call of load_track, play, pause, resume, stop or
\* set_position raises, the operation raises nothing, returns False and
\* leaves is_playing, is_paused and current_file as they were.
C9_NativeFailureContained ==
    (last.op \in BoolOps /\ last.engine = "raise")
        => (~last.raised /\ last.ret = "False" /\ FlagsKept)

\* the engine rejected a play() on a loaded, stopped controller
C9_Witness ==
    /\ last.op = "play"
    /\ last.engine = "raise"
    /\ last.calls = <<"play">>
    /\ last.pre.current_file # NoFile
    /\ ~last.pre.is_playing
    /\ last.ret = "False"

\* C10 (as stated): no get_duration / get_current_time of the poller reaches
\* the native player after cleanup() has released it.
C10_NoPollAfterRelease == pollq # "released"

\* C11 (as stated): a cleanup() called after a cleanup() that released the
\* player and the instance changes no controller field and makes no native
\* stop/release call.
C11_CleanupIdempotent ==
    (last.op = "cleanup" /\ last.pre.nplayer = "released"
        /\ last.pre.ninstance = "released")
        => (last.calls = <<>> /\ ~crashed /\ ~last.raised)

C15_SetPositionClamps ==
    last.op = "set_position" =>
        IF last.pre.player = "None"
        THEN last.ret = "False" /\ last.calls = <<>> /\ last.fwd = Sentinel
        ELSE /\ last.calls = <<"set_position">>
             /\ last.fwd = (IF last.arg < 0 THEN 0
                            ELSE IF last.arg > 10 THEN 10 ELSE last.arg)

\* set_position(-0.3) reached the engine as 0.0
C15_Witness ==
    /\ last.op = "set_position"
    /\ last.arg = 0 - 3
    /\ last.ret = "True"
    /\ last.fwd = 0

\* C18 (as stated): after cleanup() on an initialized controller the native
\* player and the native instance are both released, whatever the native
\* calls of cleanup did, and cleanup() raised nothing.
C18_CleanupReleasesBoth ==
    (last.op = "cleanup" /\ last.pre.player # "None" /\ last.pre.nplayer = "live"
        /\ last.pre.ninstance = "live")
        => (nplayer = "released" /\ ninstance = "released" /\ ~last.raised)

\* the event loop applies the oldest scheduled snapshot in this step
ApplyStep ==
    /\ afterq # <<>>
    /\ afterq' = Tail(afterq)
    /\ uipc \in {"mainloop", "messagebox"}
    /\ uipc' = uipc

\* C12: once running is cleared the poller ends (or the process does); the
\* first loop test made with running cleared ends the loop, and a poller
\* that has left the loop schedules no callback.
C12_PollerCancellation ==
    /\ (~running) ~> (pollpc \in {"done", "killed"} \/ crashed)
    /\ [][(~running /\ pollpc = "while" /\ pollpc' # "while")
              => pollpc' \in {"done", "killed"}]_vars
    /\ [][pollpc = "done"
              => (pollpc' \in {"done", "killed"} /\ Len(afterq') <= Len(afterq))]_vars

\* the poller saw running == False and left its loop
C12_Witness == ~running /\ pollpc = "done" /\ uipc # "exited"

\* C13: no snapshot is applied while is_slider_dragging is True, and the
\* poller gets to its queries and to root.after only through a read of
\* is_playing == True followed by a read of is_slider_dragging == False.
C13_SeekSuppressesPoller ==
    [][/\ ApplyStep => ~is_slider_dragging
       /\ (pollpc' = "if_dragging" /\ pollpc # "if_dragging")
             => (pollpc = "if_playing" /\ is_playing)
       /\ (pollpc' = "get_duration" /\ pollpc # "get_duration")
             => (pollpc = "if_dragging" /\ ~is_slider_dragging)
       /\ (pollpc' = "get_current_time" /\ pollpc # "get_current_time")
             => pollpc = "get_duration"
       /\ (pollpc' = "after" /\ pollpc # "after") => pollpc = "get_current_time"
       /\ (pollq' # pollq \/ duration' # duration \/ current' # current)
             => pollpc \in {"get_duration", "get_current_time", "after"}
       /\ Len(afterq') > Len(afterq) => pollpc = "after"]_vars

\* a seek is in progress, the poller read the flag as True and skipped its
\* queries, and an earlier snapshot is still waiting
C13_Witness ==
    /\ is_slider_dragging
    /\ is_playing
    /\ afterq # <<>>
    /\ pollpc = "sleep"
    /\ uipc = "slider_finally"

\* C16: an applied snapshot (elapsed, duration) with duration > 0 sets the
\* indicator to elapsed / duration * 100 clamped to [0, 100]; with
\* duration <= 0 it sets the indicator to 0 and the label to
\* "--:-- / --:--", and the indicator is never a fraction over zero.
C16_AppliedSnapshot ==
    [][ApplyStep =>
          LET c == Head(afterq).current
              d == Head(afterq).duration
          IN  IF d > 0
              THEN /\ progress_var'.den > 0
                   /\ c <= 0 => progress_var' = Fraction(0, 1)
                   /\ c >= d => progress_var' = Fraction(100, 1)
                   /\ (c > 0 /\ c < d)
                         => progress_var' = [num |-> c * 100, den |-> d]
              ELSE /\ progress_var' = Fraction(0, 1)
                   /\ time_label' = UnknownLabel]_vars

\* the snapshot (2000, 180000) is on the display
C16_Witness ==
    /\ progress_var = Fraction(200000, 180000)
    /\ time_label = [cur |-> <<0, 2>>, dur |-> <<3, 0>>]

\* C19 (as stated): no snapshot is applied between a successful Stop and the
\* next Play, that is, while is_playing is False.
C19_NoSnapshotAfterStop == [][ApplyStep => is_playing]_vars

\* C20 (as stated): the Resume handler never fails on a missing track.
C20_ResumeHandlerNeverFails == uipc # "callback_exception"

Recognised == {a_mp3, B_WAV, c_OGG}

Range(f) == {f[i] : i \in 1..Len(f)}

\* C17 (as stated): for a folder holding a.mp3, B.WAV and notes.txt,
\* list_tracks returns [a.mp3, B.WAV] in that order.
C17_ScenarioOrder ==
    (scanned /\ music_exists /\ directory = {a_mp3, B_WAV, notes_txt})
        => tracks = <<a_mp3, B_WAV>>

\* C17 (amended): list_tracks returns exactly the files whose extension is
\* mp3, wav or ogg in any case, each once, ascending in the platform's path
\* order; for a.mp3, B.WAV, notes.txt that is [B.WAV, a.mp3] on POSIX and
\* [a.mp3, B.WAV] on Windows; a missing folder gives the empty list.
C17_RecognisedSortedByPath ==
    scanned =>
        /\ ~music_exists => tracks = <<>>
        /\ Range(tracks) = directory \cap Recognised
        /\ Len(tracks) = Cardinality(directory \cap Recognised)
        /\ \A i \in 1..Len(tracks) : \A j \in 1..Len(tracks) :
              i < j => PathLess(tracks[i], tracks[j], platform)
        /\ directory = {a_mp3, B_WAV, notes_txt}
              => tracks = (IF platform = "posix" THEN <<B_WAV, a_mp3>>
                           ELSE <<a_mp3, B_WAV>>)

\* the scenario's folder was scanned on POSIX
C17_Witness ==
    /\ scanned
    /\ platform = "posix"
    /\ directory = {a_mp3, B_WAV, notes_txt}
    /\ tracks = <<B_WAV, a_mp3>>

====
